---- MODULE Spec2Model ----
(***************************************************************************)
(* A model of hipchat-notifications: hipchat/notifications.py (module      *)
(* import, _token, _headers, _api, notify_room, notify_user and the colour *)
(* helpers), hipchat/exceptions.py (HipChatError) and hipchat/logger.py    *)
(* (HipChatHandler.emit), with the hand-over of the 'hipchat' logger's     *)
(* records to the HipChatHandlers attached to it.                          *)
(*                                                                         *)
(* Python values are encoded as follows.                                   *)
(*   str            a TLA+ string                                          *)
(*   None / a value None == <<>> and Some(v) == <<v>>                      *)
(*   dict           a function whose domain is the set of keys             *)
(*   JSON value     [type |-> "object" | "array" | "string" | "number" |   *)
(*                  "null", value |-> ...]                                 *)
(*   exception      [type |-> class name, ...]                             *)
(***************************************************************************)
EXTENDS Integers, Sequences, FiniteSets, TLC

VARIABLES
    environ,          \* os.environ, a dict of the variables that are set
    imported,         \* "no", "ok", or the error that import of notifications.py raised
    API_SERVER_HOST,  \* module global (None until assigned)
    API_V2_ROOT,      \* module global (None until assigned)
    call,             \* the public operation last called, with its arguments
    room_calls,       \* the notify_room invocations made during that operation
    api_calls,        \* the _api invocations made during that operation
    posts,            \* the requests.post calls made during that operation
    reply,            \* what requests.post did for the last post
    logged,           \* the lines given to logger.debug during that operation
    outcome,          \* how the operation ended: a return value or a raised exception
    handlers,         \* the HipChatHandlers that are handed the DEBUG records of
                      \* the logger 'hipchat', in the order they are called
    emitted           \* the HipChatHandler.emit invocations made during that operation

vars == <<environ, imported, API_SERVER_HOST, API_V2_ROOT, call, room_calls,
          api_calls, posts, reply, logged, outcome, handlers, emitted>>

-----------------------------------------------------------------------------
(* Python values *)

None == <<>>
Some(v) == <<v>>
Val(o) == o[1]

\* dict.get(key) with the default None
Get(d, key) == IF key \in DOMAIN d THEN Some(d[key]) ELSE None

\* the truth value of an optional string: None and '' are false
Truthy(o) == o # None /\ Val(o) # ""

Min(a, b) == IF a <= b THEN a ELSE b

\* s[:n] for n >= 0
Slice(s, n) == SubSeq(s, 1, Min(n, Len(s)))

\* the characters str.strip() removes, those for which str.isspace() holds:
\* space, \t, \n, \r, \f, the vertical tab U+000B, the separators U+001C to
\* U+001F, U+0085, U+00A0 and U+1680.  (The others, U+2000 to U+200A,
\* U+2028, U+2029, U+202F, U+205F and U+3000, are characters that a string
\* of this module cannot hold.)
Whitespace ==
    {" ", "\t", "\n", "\r", "\f", "", "", "", "", "", "", " ", " "}

RECURSIVE lstrip(_)
lstrip(s) ==
    IF Len(s) > 0 /\ SubSeq(s, 1, 1) \in Whitespace
    THEN lstrip(SubSeq(s, 2, Len(s)))
    ELSE s

RECURSIVE rstrip(_)
rstrip(s) ==
    IF Len(s) > 0 /\ SubSeq(s, Len(s), Len(s)) \in Whitespace
    THEN rstrip(SubSeq(s, 1, Len(s) - 1))
    ELSE s

\* str.strip()
strip(s) == rstrip(lstrip(s))

\* str.find(sep, from i): the first index >= i where sep starts, 0 if none
RECURSIVE find(_, _, _)
find(s, sep, i) ==
    IF i + Len(sep) - 1 > Len(s) THEN 0
    ELSE IF SubSeq(s, i, i + Len(sep) - 1) = sep THEN i
    ELSE find(s, sep, i + 1)

\* str.split(sep) for a non-empty sep: always at least one entry
RECURSIVE split(_, _)
split(s, sep) ==
    LET i == find(s, sep, 1) IN
    IF i = 0 THEN <<s>>
    ELSE <<SubSeq(s, 1, i - 1)>> \o split(SubSeq(s, i + Len(sep), Len(s)), sep)

\* a choice that always takes the first entry
ChoiceAlwaysFirst(seq) == {seq[1]}

\* random.choice(seq): the values it can return
random_choice(seq) == {seq[i] : i \in DOMAIN seq}

\* sub in s, for strings
Contains(s, sub) == find(s, sub, 1) # 0

-----------------------------------------------------------------------------
(* exceptions *)

Exception(type, text) ==
    [type |-> type, text |-> text, status_code |-> None, message |-> None,
     response |-> None]

\* requests.HTTPError(response=response)
HTTPError(response) ==
    [type |-> "HTTPError", text |-> "", status_code |-> None, message |-> None,
     response |-> Some(response)]

Return(v) == [kind |-> "return", value |-> v, exc |-> None]
Raise(e) == [kind |-> "raise", value |-> None, exc |-> Some(e)]

Raised(o, type) == o.kind = "raise" /\ Val(o.exc).type = type

\* what a call did: how it ended and, in order, the requests it posted, the
\* lines it gave to logger.debug and the calls of _api, notify_room and
\* HipChatHandler.emit made in it.  Done(o): it ended with o and did nothing
Done(o) ==
    [outcome |-> o, posts |-> <<>>, logged |-> <<>>, api_calls |-> <<>>,
     room_calls |-> <<>>, emitted |-> <<>>]

\* r, and after it s: what both did, ending as s ended
Then(r, s) ==
    [outcome |-> s.outcome, posts |-> r.posts \o s.posts,
     logged |-> r.logged \o s.logged, api_calls |-> r.api_calls \o s.api_calls,
     room_calls |-> r.room_calls \o s.room_calls,
     emitted |-> r.emitted \o s.emitted]

\* r, and s after it unless r raised: an exception ends the caller too
AndThen(r, s) == IF r.outcome.kind = "raise" THEN r ELSE Then(r, s)

\* what a call did whose result the caller drops
DropResult(r) ==
    [r EXCEPT !.outcome = IF r.outcome.kind = "raise" THEN r.outcome ELSE Return(None)]

-----------------------------------------------------------------------------
(* hipchat/exceptions.py *)

BAD_RESPONSE_CODES == {400, 401, 403, 404, 405, 429, 500, 503}

JSON(type, value) == [type |-> type, value |-> value]

\* response.json(): the parsed body, or ValueError when the body is not JSON
\* (a response body is None when its text is not JSON)
ResponseJson(response) ==
    IF response.body = None
    THEN Raise(Exception("ValueError", "No JSON object could be decoded"))
    ELSE Return(Val(response.body))

\* key in obj, for a parsed JSON value obj
JsonIn(key, obj) ==
    CASE obj.type = "object" -> Return(key \in DOMAIN obj.value)
      [] obj.type = "array" ->
            Return(\E i \in DOMAIN obj.value : obj.value[i] = JSON("string", key))
      [] obj.type = "string" -> Return(Contains(obj.value, key))
      [] OTHER -> Raise(Exception("TypeError", "argument is not iterable"))

\* obj[key], for a parsed JSON value obj and a string key
JsonGetItem(obj, key) ==
    CASE obj.type = "object" ->
            IF key \in DOMAIN obj.value
            THEN Return(obj.value[key])
            ELSE Raise(Exception("KeyError", key))
      [] obj.type \in {"array", "string"} ->
            Raise(Exception("TypeError", "indices must be integers"))
      [] OTHER -> Raise(Exception("TypeError", "object is not subscriptable"))

\* HipChatError without the assertion on 'error'
HipChatErrorNoAssert(response) ==
    IF response.status_code \notin BAD_RESPONSE_CODES
    THEN Exception("AssertionError", "Invalid HipChatError response.status_code")
    ELSE
    LET body == ResponseJson(response) IN
    IF body.kind = "raise" THEN Val(body.exc)
    ELSE
    LET error == JsonGetItem(body.value, "error") IN
    IF error.kind = "raise" THEN Val(error.exc)
    ELSE
    LET message == JsonGetItem(error.value, "message") IN
    IF message.kind = "raise" THEN Val(message.exc)
    ELSE [type |-> "HipChatError", text |-> "",
          status_code |-> Some(response.status_code),
          message |-> Some(message.value), response |-> None]

\* HipChatError with the error object taken for the message
HipChatErrorWholeError(response) ==
    IF response.status_code \notin BAD_RESPONSE_CODES
    THEN Exception("AssertionError", "Invalid HipChatError response.status_code")
    ELSE
    LET body == ResponseJson(response) IN
    IF body.kind = "raise" THEN Val(body.exc)
    ELSE
    LET has == JsonIn("error", body.value) IN
    IF has.kind = "raise" THEN Val(has.exc)
    ELSE IF ~has.value
    THEN Exception("AssertionError", "Invalid HipChatError response.json()")
    ELSE
    LET error == JsonGetItem(body.value, "error") IN
    IF error.kind = "raise" THEN Val(error.exc)
    ELSE [type |-> "HipChatError", text |-> "",
          status_code |-> Some(response.status_code),
          message |-> Some(error.value), response |-> None]

\* HipChatError(response): the exception that the expression ends with, the
\* new HipChatError or whatever its __init__ raised
HipChatError(response) ==
    IF response.status_code \notin BAD_RESPONSE_CODES
    THEN Exception("AssertionError", "Invalid HipChatError response.status_code")
    ELSE
    LET body == ResponseJson(response) IN
    IF body.kind = "raise" THEN Val(body.exc)
    ELSE
    LET has == JsonIn("error", body.value) IN
    IF has.kind = "raise" THEN Val(has.exc)
    ELSE IF ~has.value
    THEN Exception("AssertionError", "Invalid HipChatError response.json()")
    ELSE
    LET error == JsonGetItem(body.value, "error") IN
    IF error.kind = "raise" THEN Val(error.exc)
    ELSE
    LET message == JsonGetItem(error.value, "message") IN
    IF message.kind = "raise" THEN Val(message.exc)
    ELSE [type |-> "HipChatError", text |-> "",
          status_code |-> Some(response.status_code),
          message |-> Some(message.value), response |-> None]

-----------------------------------------------------------------------------
(* hipchat/notifications.py *)

DEFAULT_API_SERVER_HOST == "api.hipchat.com"

\* lines 25-28: the value the module assigns to API_SERVER_HOST
ResolveHost(env) ==
    IF Truthy(Get(env, "HIPCHAT_API_SERVER"))
    THEN Get(env, "HIPCHAT_SERVER")
    ELSE Some(DEFAULT_API_SERVER_HOST)

\* line 30: 'https://' + API_SERVER_HOST + '/v2/'
V2Root(host) == "https://" \o host \o "/v2/"

SEND_USER_MESSAGE_URL(user) == Val(API_V2_ROOT) \o "user/" \o user \o "/message"
SEND_ROOM_MESSAGE_URL(room) == Val(API_V2_ROOT) \o "room/" \o room \o "/notification"

VALID_COLORS == {"yellow", "green", "red", "purple", "gray", "random"}
VALID_FORMATS == {"text", "html"}

MESSAGE_LIMIT == 10000
LABEL_LIMIT == 64

\* _token without the strip()
TokenNoStrip(env) ==
    LET token == Get(env, "HIPCHAT_API_TOKEN") IN
    IF token = None
    THEN {None}
    ELSE {Some(e) : e \in random_choice(split(Val(token), ","))}

\* _token(): the values it can return for the environment env
_token(env) ==
    LET token == Get(env, "HIPCHAT_API_TOKEN") IN
    IF token = None
    THEN {None}
    ELSE {Some(strip(e)) : e \in random_choice(split(Val(token), ","))}

_headers(auth_token) ==
    [k \in {"Authorization", "Host", "Content-Type"} |->
        CASE k = "Authorization" -> "Bearer " \o auth_token
          [] k = "Host" -> Val(API_SERVER_HOST)
          [] k = "Content-Type" -> "application/json"]

\* lines 106-110: the assertion of _api that fails, None when all hold
Validate(message, color, message_format) ==
    IF message = None
    THEN Some(Exception("AssertionError", "Missing message param"))
    ELSE IF ~(Len(Val(message)) >= 1)
    THEN Some(Exception("AssertionError", "Message too short, must be 1-10,000 chars."))
    ELSE IF color \notin VALID_COLORS
    THEN Some(Exception("AssertionError", "Invalid color value"))
    ELSE IF message_format \notin VALID_FORMATS
    THEN Some(Exception("AssertionError", "Invalid format"))
    ELSE None

\* the JSON body with the label cut one character late
RequestDataLabelOffByOne(message, color, label, notify, message_format) ==
    [k \in {"message", "color", "notify", "message_format", "from"} |->
        CASE k = "message" -> JSON("string", Slice(Val(message), MESSAGE_LIMIT))
          [] k = "color" -> JSON("string", color)
          [] k = "notify" -> JSON("bool", notify)
          [] k = "message_format" -> JSON("string", message_format)
          [] k = "from" ->
                JSON("string",
                     IF Truthy(label) THEN Slice(Val(label), LABEL_LIMIT + 1) ELSE "")]

\* lines 118-124: the JSON body of the request
RequestData(message, color, label, notify, message_format) ==
    [k \in {"message", "color", "notify", "message_format", "from"} |->
        CASE k = "message" -> JSON("string", Slice(Val(message), MESSAGE_LIMIT))
          [] k = "color" -> JSON("string", color)
          [] k = "notify" -> JSON("bool", notify)
          [] k = "message_format" -> JSON("string", message_format)
          [] k = "from" ->
                JSON("string",
                     IF Truthy(label) THEN Slice(Val(label), LABEL_LIMIT) ELSE "")]

\* Response.raise_for_status(): the HTTPError it raises, None when it returns
raise_for_status(response) ==
    IF response.status_code >= 400 /\ response.status_code < 600
    THEN Some(HTTPError(response))
    ELSE None

\* lines 126-131: the end of _api once requests.post has done `sent`, which
\* is a response returned or an exception raised
AfterPost(sent) ==
    IF sent.kind = "raise"
    THEN IF Val(sent.exc).type = "HTTPError"
         THEN Raise(HipChatError(Val(Val(sent.exc).response)))
         ELSE sent
    ELSE
    LET ex == raise_for_status(sent.value) IN
    IF ex = None
    THEN Return(Some(sent.value))
    ELSE Raise(HipChatError(Val(Val(ex).response)))

ApiArgs(url, message, color, label, notify, message_format) ==
    [url |-> url, message |-> message, color |-> color, label |-> label,
     notify |-> notify, message_format |-> message_format]

RoomArgs(room, message, color, label, notify, message_format) ==
    [room |-> room, message |-> message, color |-> color, label |-> label,
     notify |-> notify, message_format |-> message_format]

RECURSIVE emit(_, _, _, _, _, _)

RecursionError == Exception("RecursionError", "maximum recursion depth exceeded")

\* the frames in which the loop _api -> logger.debug -> emit -> notify_room
\* -> _api reaches the recursion limit: inside logging before emit is
\* entered, in notify_room at SEND_ROOM_MESSAGE_URL(room) before _api is
\* entered, or in _api at _token() before logger.debug is called.  (The
\* frames of logging between debug and emit are deeper than emit's own
\* first call, so the limit is never reached in emit itself.)
RaisePoints == {"logging", "notify_room", "_api"}

\* the last emit call that fits is running and frame is where the limit is
Exhausted(stack, frame) == stack.emits = 0 /\ stack.at = frame

\* Logger.callHandlers for a record of the logger 'hipchat': the handlers
\* hs[i], hs[i+1], ... are handed the record in turn.  What emit raises is
\* not caught, it ends the hand-over and reaches the caller of logger.debug.
\* stack is the room the interpreter's stack still has: stack.emits is the
\* number of nested emit calls that fit, and stack.at the frame in which
\* the limit is reached once they are used up (RaisePoints).  With no emit
\* left the hand-over raises RecursionError inside logging.
RECURSIVE callHandlers(_, _, _, _, _, _)
callHandlers(i, record, token, sent, hs, stack) ==
    IF i > Len(hs) THEN Done(Return(None))
    ELSE IF stack.emits = 0
    THEN Done(Raise(RecursionError))
    ELSE AndThen(emit(hs[i], record, token, sent, hs,
                      [stack EXCEPT !.emits = stack.emits - 1]),
                 callHandlers(i + 1, record, token, sent, hs, stack))

\* logger.debug(msg), line 36 and lines 114-115: the line is logged and a
\* DEBUG record with it is handed to the handlers hs
debug(msg, token, sent, hs, stack) ==
    Then([Done(Return(None)) EXCEPT !.logged = <<msg>>],
         callHandlers(1, [levelname |-> "DEBUG", message |-> msg], token, sent, hs,
                      stack))

\* _api with the credential resolved before the arguments are checked
ApiTokenFirst(url, message, color, label, notify, message_format, token, sent, hs, stack) ==
    LET me == [Done(Return(None)) EXCEPT
                  !.api_calls = <<ApiArgs(url, message, color, label, notify,
                                          message_format)>>]
        invalid == Validate(message, color, message_format)
    IN
    IF token = None
    THEN me
    ELSE IF invalid # None
    THEN [me EXCEPT !.outcome = Raise(Val(invalid))]
    ELSE [me EXCEPT !.outcome = AfterPost(sent),
                    !.posts = <<[url |-> url,
                                 json |-> RequestData(message, color, label, notify,
                                                      message_format),
                                 headers |-> _headers(Val(token))]>>]

\* _api(url, message, color, label, notify, message_format), where _token()
\* returns token and requests.post, if it is called, does sent.  The result
\* is how the call ends with the posts, the debug lines and the calls made
\* in it.  (With no token the two logger.debug calls can lead back into
\* _api through a handler; HIPCHAT_API_TOKEN is unset then, so _token()
\* returns None there too and token is passed on.)
_api(url, message, color, label, notify, message_format, token, sent, hs, stack) ==
    LET me == [Done(Return(None)) EXCEPT
                  !.api_calls = <<ApiArgs(url, message, color, label, notify,
                                          message_format)>>]
        invalid == Validate(message, color, message_format)
    IN
    IF invalid # None
    THEN [me EXCEPT !.outcome = Raise(Val(invalid))]
    ELSE IF Exhausted(stack, "_api")
    THEN [me EXCEPT !.outcome = Raise(RecursionError)]
    ELSE IF token = None
    THEN AndThen(Then(me, debug("HipChat API token not found, logging message instead:",
                                token, sent, hs, stack)),
                 debug(Val(message), token, sent, hs, stack))
    ELSE [me EXCEPT !.outcome = AfterPost(sent),
                    !.posts = <<[url |-> url,
                                 json |-> RequestData(message, color, label, notify,
                                                      message_format),
                                 headers |-> _headers(Val(token))]>>]

\* notify_room(room, message, color, label, notify, message_format)
notify_room(room, message, color, label, notify, message_format, token, sent, hs, stack) ==
    Then([Done(Return(None)) EXCEPT
             !.room_calls = <<RoomArgs(room, message, color, label, notify,
                                       message_format)>>],
         IF Exhausted(stack, "notify_room")
         THEN Done(Raise(RecursionError))
         ELSE _api(SEND_ROOM_MESSAGE_URL(room), message, color, label, notify,
                   message_format, token, sent, hs, stack))

\* notify_user(user, message, notify, message_format): _api is called without
\* color and label, which take its defaults 'yellow' and None
notify_user(user, message, notify, message_format, token, sent, hs, stack) ==
    _api(SEND_USER_MESSAGE_URL(user), message, "yellow", None, notify,
         message_format, token, sent, hs, stack)

\* the colour each helper function assigns to kwargs['color']; grey = gray
HelperColor ==
    [yellow |-> "yellow", gray |-> "gray", grey |-> "gray", green |-> "green",
     purple |-> "purple", red |-> "red"]

\* d[key] = value, for a dict d
SetItem(d, key, value) ==
    [k \in DOMAIN d \cup {key} |-> IF k = key THEN value ELSE d[k]]

\* kwargs[key] if the caller passed it, else the parameter's default
Kw(kwargs, key, default) == IF key \in DOMAIN kwargs THEN kwargs[key] ELSE default

\* yellow, gray, grey, green, purple, red (room, message, **kwargs)
colour_helper(fn, room, message, kwargs, token, sent, hs, stack) ==
    LET kw == SetItem(kwargs, "color", HelperColor[fn])
    IN notify_room(room, message, kw["color"], Kw(kw, "label", None),
                   Kw(kw, "notify", FALSE), Kw(kw, "message_format", "html"),
                   token, sent, hs, stack)

-----------------------------------------------------------------------------
(* hipchat/logger.py *)

DEFAULT_COLOURS ==
    [DEBUG |-> "gray", INFO |-> "yellow", WARN |-> "purple", WARNING |-> "purple",
     ERROR |-> "red", CRITICAL |-> "red"]

\* HipChatHandler(token, room, label, notify, colors, message_format)
HipChatHandler(token, room, label, notify, colors, message_format) ==
    [token |-> token, room |-> room, label |-> label, notify |-> notify,
     colors |-> colors, message_format |-> message_format]

\* the lookup falling back on the default table instead of yellow
LevelColorDefaultTable(colors, levelname) ==
    IF levelname \in DOMAIN colors THEN colors[levelname]
    ELSE IF levelname \in DOMAIN DEFAULT_COLOURS THEN DEFAULT_COLOURS[levelname]
    ELSE "yellow"

\* self.colors.get(record.levelname, 'yellow')
LevelColor(colors, levelname) ==
    IF levelname \in DOMAIN colors THEN colors[levelname] ELSE "yellow"

\* emit sending with the token the handler was constructed with
EmitWithHandlerToken(self, record, token, sent, hs, stack) ==
    DropResult(
        Then([Done(Return(None)) EXCEPT
                 !.emitted = <<[self |-> self, record |-> record]>>],
             notify_room(self.room, Some(record.message),
                         LevelColor(self.colors, record.levelname), self.label,
                         self.notify, self.message_format, Some(self.token), sent,
                         hs, stack)))

\* HipChatHandler.emit(record): the result of notify_room is dropped, what it
\* raises is not caught
emit(self, record, token, sent, hs, stack) ==
    DropResult(
        Then([Done(Return(None)) EXCEPT
                 !.emitted = <<[self |-> self, record |-> record]>>],
             notify_room(self.room, Some(record.message),
                         LevelColor(self.colors, record.levelname), self.label,
                         self.notify, self.message_format, token, sent, hs, stack)))

-----------------------------------------------------------------------------
(* the environment and the inputs *)

\* os.environ with the three variables the module reads, each set or not
Env(token, api_server, server) ==
    LET set == [HIPCHAT_API_TOKEN |-> token, HIPCHAT_API_SERVER |-> api_server,
                HIPCHAT_SERVER |-> server]
    IN [k \in {n \in DOMAIN set : set[n] # None} |-> Val(set[k])]

RECURSIVE Repeat(_, _)
Repeat(s, n) ==
    IF n = 0 THEN ""
    ELSE IF n % 2 = 0 THEN LET h == Repeat(s, n \div 2) IN h \o h
    ELSE s \o Repeat(s, n - 1)

\* a string of n characters in which neighbours differ
Text(n) == Slice(Repeat("abcdefghij", (n \div 10) + 1), n)

\* how far past a limit the lengths of the long messages and labels go
MaxOver == 1

\* how long the value of HIPCHAT_API_TOKEN gets in SpecToken
MaxSourceLen == 4

\* how many HipChatHandlers get attached to the logger
MaxInstalled == 1

\* how many nested emit calls the interpreter's stack has room for at most
MaxNesting == 2

\* the characters of those values: letters, the comma, a space and a
\* vertical tab
SourceAlphabet == {"a", "b", ",", " ", ""}

RECURSIVE Strings(_, _)
Strings(alphabet, n) ==
    IF n = 0 THEN {""}
    ELSE LET shorter == Strings(alphabet, n - 1)
         IN shorter \cup {s \o c : s \in {t \in shorter : Len(t) = n - 1},
                                   c \in alphabet}

OkResponse == [status_code |-> 200, body |-> Some(JSON("object", <<>>))]

ErrorBody(message) ==
    JSON("object", [error |-> JSON("object", [message |-> message])])

ResponseBodies ==
    { None,
      Some(JSON("object", <<>>)),
      Some(JSON("object", [message |-> JSON("string", "bad request")])),
      Some(JSON("object", [error |-> JSON("object", <<>>)])),
      Some(JSON("object", [error |-> JSON("object", [code |-> JSON("number", 400)])])),
      Some(JSON("object", [error |-> JSON("string", "bad request")])),
      Some(JSON("object", [error |-> JSON("null", <<>>)])),
      Some(JSON("object", [error |-> JSON("array", <<JSON("string", "message")>>)])),
      Some(ErrorBody(JSON("string", "bad request"))),
      Some(ErrorBody(JSON("string", "uh-oh"))),
      Some(ErrorBody(JSON("string", ""))),
      Some(ErrorBody(JSON("number", 5))),
      Some(ErrorBody(JSON("null", <<>>))),
      Some(JSON("array", <<>>)),
      Some(JSON("array", <<JSON("string", "error")>>)),
      Some(JSON("string", "error")),
      Some(JSON("string", "fine")),
      Some(JSON("number", 5)),
      Some(JSON("null", <<>>)) }

OtherStatusCodes == {200, 201, 402, 418, 502, 504}

TransportErrors ==
    {Exception("ConnectionError", "connection refused"),
     Exception("Timeout", "timed out")}

\* what requests.post can do: return a response, or raise
Replies(codes, bodies) ==
    {Return([status_code |-> c, body |-> b]) : c \in codes, b \in bodies}
    \cup {Raise(HTTPError([status_code |-> c, body |-> b])) : c \in codes, b \in bodies}
    \cup {Raise(e) : e \in TransportErrors}

Handlers(tokens, rooms, labels, notifies, tables, formats) ==
    {HipChatHandler(t, r, l, n, c, f) :
        t \in tokens, r \in rooms, l \in labels, n \in notifies, c \in tables,
        f \in formats}

LevelNames == {"DEBUG", "INFO", "WARN", "WARNING", "ERROR", "CRITICAL", "TRACE"}

ColourTables ==
    {DEFAULT_COLOURS, [DEBUG |-> "red"], [INFO |-> "green", TRACE |-> "black"]}

\* the inputs of Spec: every kind of argument, three kinds of reply
Inputs ==
    [rooms |-> {"12"},
     users |-> {"fred", "hugo@example.com"},
     messages |-> {None, Some(""), Some("hi")}
                  \cup {Some(Text(MESSAGE_LIMIT + d)) : d \in -1 .. MaxOver},
     colors |-> VALID_COLORS \cup {"black"},
     labels |-> {None, Some(""), Some("bot")}
                \cup {Some(Text(LABEL_LIMIT + d)) : d \in 0 .. MaxOver},
     notifies |-> BOOLEAN,
     formats |-> VALID_FORMATS \cup {"png"},
     kwargs |-> {<<>>, [color |-> "black"], [label |-> Some("bot")],
                 [notify |-> TRUE, message_format |-> "text"],
                 [message_format |-> "png"],
                 [label |-> Some(Text(LABEL_LIMIT + 1)), color |-> "green"]},
     handlers |-> Handlers({"tokA", "tokB"}, {"dev"}, {Some(""), Some("hello")},
                           BOOLEAN, ColourTables, {"html", "text"}),
     records |-> [levelname : LevelNames,
                  message : {"", "foo", Text(MESSAGE_LIMIT + MaxOver)}],
     attached |-> {HipChatHandler("tokA", "dev", Some(""), FALSE, DEFAULT_COLOURS,
                                  "html"),
                   HipChatHandler("tokB", "12", Some("hello"), TRUE,
                                  [DEBUG |-> "black"], "text")},
     replies |-> {Return(OkResponse),
                  Return([status_code |-> 400,
                          body |-> Some(ErrorBody(JSON("string", "bad request")))]),
                  Raise(Exception("ConnectionError", "connection refused"))}]

\* the inputs of SpecReply: one call of each kind, every kind of reply
ReplyInputs ==
    [rooms |-> {"dev"},
     users |-> {"fred"},
     messages |-> {Some("hi")},
     colors |-> {"yellow"},
     labels |-> {None},
     notifies |-> {FALSE},
     formats |-> {"html"},
     kwargs |-> {<<>>},
     handlers |-> Handlers({"tokA"}, {"dev"}, {Some("")}, {FALSE}, {DEFAULT_COLOURS},
                           {"html"}),
     records |-> [levelname : {"ERROR"}, message : {"foo"}],
     attached |-> {HipChatHandler("tokA", "dev", Some(""), FALSE, DEFAULT_COLOURS,
                                  "html")},
     replies |-> Replies(BAD_RESPONSE_CODES \cup OtherStatusCodes, ResponseBodies)]

\* the inputs of SpecToken: one call of each kind, answered with 200
TokenInputs ==
    [ReplyInputs EXCEPT !.replies = {Return(OkResponse)}]

Environs ==
    {Env(t, None, None) :
        t \in {None, Some(""), Some("token"), Some("abc,def , ghi")}}
    \cup {Env(t, a, s) :
            t \in {Some("token")},
            a \in {None, Some(""), Some("chat.example.com")},
            s \in {None, Some("hipchat.local")}}

TokenEnvirons ==
    {Env(Some(t), None, None) : t \in Strings(SourceAlphabet, MaxSourceLen)}

-----------------------------------------------------------------------------
(* the state machine *)

NoCall == [fn |-> "none", args |-> <<>>]

InitWith(environs) ==
    /\ environ \in environs
    /\ imported = "no"
    /\ API_SERVER_HOST = None
    /\ API_V2_ROOT = None
    /\ call = NoCall
    /\ room_calls = <<>>
    /\ api_calls = <<>>
    /\ posts = <<>>
    /\ reply = None
    /\ logged = <<>>
    /\ outcome = Return(None)
    /\ handlers = <<>>
    /\ emitted = <<>>

Init == InitWith(Environs)

InitToken == InitWith(TokenEnvirons)

\* import hipchat.notifications: lines 25-30 run once; with no host, the
\* concatenation of line 30 raises TypeError and the import fails
Import ==
    /\ imported = "no"
    /\ LET host == ResolveHost(environ) IN
       /\ API_SERVER_HOST' = host
       /\ IF host = None
          THEN imported' = "TypeError" /\ API_V2_ROOT' = None
          ELSE imported' = "ok" /\ API_V2_ROOT' = Some(V2Root(Val(host)))
    /\ UNCHANGED <<environ, call, room_calls, api_calls, posts, reply, logged, outcome,
                   handlers, emitted>>

\* logging.getLogger(...).addHandler(h) for a HipChatHandler h, on the logger
\* 'hipchat' or one above it, with DEBUG enabled: h is handed the records of
\* logger.debug from then on.  The class comes with hipchat.logger, which
\* imports hipchat.notifications first.  A handler that is attached already
\* is not attached again.
addHandler(In) ==
    /\ imported = "ok"
    /\ call = NoCall
    /\ Len(handlers) < MaxInstalled
    /\ \E h \in In.attached :
          /\ \A i \in DOMAIN handlers : handlers[i] # h
          /\ handlers' = Append(handlers, h)
    /\ UNCHANGED <<environ, imported, API_SERVER_HOST, API_V2_ROOT, call, room_calls,
                   api_calls, posts, reply, logged, outcome, emitted>>

\* the state a public operation leaves: r is what the operation did
Finish(fn, args, r, sent) ==
    /\ call' = [fn |-> fn, args |-> args]
    /\ room_calls' = r.room_calls
    /\ api_calls' = r.api_calls
    /\ posts' = r.posts
    /\ reply' = IF r.posts = <<>> THEN None ELSE Some(sent)
    /\ logged' = r.logged
    /\ outcome' = r.outcome
    /\ emitted' = r.emitted
    /\ UNCHANGED <<environ, imported, API_SERVER_HOST, API_V2_ROOT, handlers>>

\* the room the stack may have when an operation is called: at least one
\* nested emit call fits
StackRooms == [emits : 1 .. MaxNesting, at : RaisePoints]

\* it matters only where logger.debug is called and reaches a handler
StackRoom(token) ==
    IF token = None /\ handlers # <<>>
    THEN StackRooms
    ELSE {[emits |-> MaxNesting, at |-> "logging"]}

NotifyRoom(In) ==
    /\ imported = "ok"
    /\ call = NoCall
    /\ \E room \in In.rooms, message \in In.messages, color \in In.colors,
          label \in In.labels, notify \in In.notifies, message_format \in In.formats,
          token \in _token(environ), sent \in In.replies :
          \E stack \in StackRoom(token) :
              Finish("notify_room",
                     RoomArgs(room, message, color, label, notify, message_format),
                     notify_room(room, message, color, label, notify, message_format,
                                 token, sent, handlers, stack),
                     sent)

NotifyUser(In) ==
    /\ imported = "ok"
    /\ call = NoCall
    /\ \E user \in In.users, message \in In.messages, notify \in In.notifies,
          message_format \in In.formats, token \in _token(environ),
          sent \in In.replies :
          \E stack \in StackRoom(token) :
              Finish("notify_user",
                     [user |-> user, message |-> message, notify |-> notify,
                      message_format |-> message_format],
                     notify_user(user, message, notify, message_format, token, sent,
                                 handlers, stack),
                     sent)

ColourHelper(In) ==
    /\ imported = "ok"
    /\ call = NoCall
    /\ \E fn \in DOMAIN HelperColor, room \in In.rooms, message \in In.messages,
          kwargs \in In.kwargs, token \in _token(environ), sent \in In.replies :
          \E stack \in StackRoom(token) :
              Finish(fn, [room |-> room, message |-> message, kwargs |-> kwargs],
                     colour_helper(fn, room, message, kwargs, token, sent, handlers,
                                   stack),
                     sent)

Emit(In) ==
    /\ imported = "ok"
    /\ call = NoCall
    /\ \E self \in In.handlers, record \in In.records, token \in _token(environ),
          sent \in In.replies :
          \E stack \in StackRoom(token) :
              Finish("emit", [self |-> self, record |-> record],
                     emit(self, record, token, sent, handlers, stack),
                     sent)

\* the caller goes on after an operation has returned or raised; nothing of
\* the operation is kept by the module, so only the record of it is dropped
Continue ==
    /\ call # NoCall
    /\ call' = NoCall
    /\ room_calls' = <<>>
    /\ api_calls' = <<>>
    /\ posts' = <<>>
    /\ reply' = None
    /\ logged' = <<>>
    /\ outcome' = Return(None)
    /\ emitted' = <<>>
    /\ UNCHANGED <<environ, imported, API_SERVER_HOST, API_V2_ROOT, handlers>>

Step(In) ==
    \/ Import
    \/ addHandler(In)
    \/ Continue
    \/ NotifyRoom(In)
    \/ NotifyUser(In)
    \/ ColourHelper(In)
    \/ Emit(In)

Next == Step(Inputs)

Spec == Init /\ [][Next]_vars

SpecReply == Init /\ [][Step(ReplyInputs)]_vars

SpecToken == InitToken /\ [][Step(TokenInputs)]_vars

-----------------------------------------------------------------------------
(* properties *)

\* the arguments the shared send path _api received in the last operation
Sent == api_calls[1]

\* an operation has run and went through _api
Called == call # NoCall /\ api_calls # <<>>

CredentialConfigured == "HIPCHAT_API_TOKEN" \in DOMAIN environ

InvalidArgs(a) ==
    \/ a.message = None
    \/ (a.message # None /\ Len(Val(a.message)) = 0)
    \/ a.color \notin {"yellow", "green", "red", "purple", "gray", "random"}
    \/ a.message_format \notin {"text", "html"}

\* C1: a send call whose message is absent or empty, whose color is not one
\* of yellow, green, red, purple, gray, random, or whose format is not text
\* or html, raises the validation error (AssertionError) and posts nothing,
\* with or without a credential in the environment.
C1_InvalidCallFails ==
    (Called /\ InvalidArgs(Sent))
        => /\ Raised(outcome, "AssertionError")
           /\ posts = <<>>
           /\ reply = None

\* an invalid call made with no credential has failed, not returned None
C1_Witness ==
    /\ Called
    /\ ~CredentialConfigured
    /\ Sent.message # None /\ Val(Sent.message) = "hi"
    /\ Sent.color = "yellow"
    /\ Sent.message_format = "png"
    /\ Raised(outcome, "AssertionError")
    /\ posts = <<>>

\* C2 as stated: with no credential configured, a send call with a valid
\* message, color and format returns None and posts nothing; it raises
\* nothing.
C2_NoCredentialNoOp ==
    (Called /\ ~CredentialConfigured /\ ~InvalidArgs(Sent))
        => /\ outcome = Return(None)
           /\ posts = <<>>

\* the response of the failed POST: the one requests.post returned, or the
\* one carried by the HTTPError it raised; None when there is none
FailedResponse ==
    IF reply = None THEN None
    ELSE LET sent == Val(reply) IN
         IF sent.kind = "return" THEN Some(sent.value)
         ELSE Val(sent.exc).response

IsBadStatus(c) == c \in {400, 401, 403, 404, 405, 429, 500, 503}

\* the body is a JSON object with an error object that has a message string
HasErrorMessage(body) ==
    /\ body # None
    /\ Val(body).type = "object"
    /\ "error" \in DOMAIN Val(body).value
    /\ Val(body).value["error"].type = "object"
    /\ "message" \in DOMAIN Val(body).value["error"].value
    /\ Val(body).value["error"].value["message"].type = "string"

\* C3: when the POST fails with a status of the bad-response set and the
\* body is a JSON object whose error.message is a string m, the call raises
\* HipChatError carrying that status and the message m; it returns nothing.
C3_RemoteError ==
    (/\ posts # <<>>
     /\ FailedResponse # None
     /\ IsBadStatus(Val(FailedResponse).status_code)
     /\ HasErrorMessage(Val(FailedResponse).body))
        => /\ Raised(outcome, "HipChatError")
           /\ Val(outcome.exc).status_code = Some(Val(FailedResponse).status_code)
           /\ Val(outcome.exc).message =
                  Some(Val(Val(FailedResponse).body).value["error"].value["message"])
           /\ outcome.value = None

\* a 429 answered with {"error": {"message": "uh-oh"}} has raised HipChatError
C3_Witness ==
    /\ posts # <<>>
    /\ FailedResponse # None
    /\ Val(FailedResponse).status_code = 429
    /\ Val(FailedResponse).body = Some(ErrorBody(JSON("string", "uh-oh")))
    /\ Raised(outcome, "HipChatError")
    /\ Val(outcome.exc).message = Some(JSON("string", "uh-oh"))

\* the POST failed with a bad-response status and its body is a JSON object
BadStatusObjectBody ==
    /\ posts # <<>>
    /\ FailedResponse # None
    /\ IsBadStatus(Val(FailedResponse).status_code)
    /\ Val(FailedResponse).body # None
    /\ Val(Val(FailedResponse).body).type = "object"

FailedBody == Val(Val(FailedResponse).body).value

\* C4 as stated: when the POST fails with a bad-response status and the body
\* is not a JSON object with an error object that has a message string, the
\* call fails with the assertion error and with no other kind of error.
C4_Original ==
    (BadStatusObjectBody /\ ~HasErrorMessage(Val(FailedResponse).body))
        => Raised(outcome, "AssertionError")

\* C4 as amended: when the POST fails with a bad-response status and the
\* body is a JSON object without an error member, the call fails with the
\* assertion error; when the error member is an object without a message
\* member, the call fails with KeyError.  In both cases an error is raised
\* and it is not HipChatError.
C4_MalformedBodyFails ==
    BadStatusObjectBody =>
        /\ "error" \notin DOMAIN FailedBody
              => Raised(outcome, "AssertionError")
        /\ ("error" \in DOMAIN FailedBody
            /\ FailedBody["error"].type = "object"
            /\ "message" \notin DOMAIN FailedBody["error"].value)
              => Raised(outcome, "KeyError")
        /\ ("error" \notin DOMAIN FailedBody
            \/ (FailedBody["error"].type = "object"
                /\ "message" \notin DOMAIN FailedBody["error"].value))
              => (outcome.kind = "raise" /\ ~Raised(outcome, "HipChatError"))

\* a 400 answered with {"error": {}} has raised KeyError
C4_Witness ==
    /\ BadStatusObjectBody
    /\ Val(FailedResponse).status_code = 400
    /\ FailedBody = [error |-> JSON("object", <<>>)]
    /\ Raised(outcome, "KeyError")

\* C5 as stated: notify_user posts to <root>user/<user>/message and the JSON
\* body of the request has no color member.
C5_UserMessageNoColor ==
    (call.fn = "notify_user" /\ posts # <<>>)
        => /\ posts[1].url = "https://" \o Val(API_SERVER_HOST) \o "/v2/user/"
                             \o call.args.user \o "/message"
           /\ "color" \notin DOMAIN posts[1].json

\* the colour the claim gives for a level name under the table colors
ClaimedColor(colors, levelname) ==
    IF colors = DEFAULT_COLOURS
    THEN CASE levelname = "DEBUG" -> "gray"
           [] levelname = "INFO" -> "yellow"
           [] levelname \in {"WARN", "WARNING"} -> "purple"
           [] levelname \in {"ERROR", "CRITICAL"} -> "red"
           [] OTHER -> "yellow"
    ELSE IF levelname \in DOMAIN colors THEN colors[levelname] ELSE "yellow"

\* the notify_room call the claim gives for the emit invocation e
ClaimedRoomCall(e) ==
    [room |-> e.self.room,
     message |-> Some(e.record.message),
     color |-> ClaimedColor(e.self.colors, e.record.levelname),
     label |-> e.self.label,
     notify |-> e.self.notify,
     message_format |-> e.self.message_format]

\* the notify_room calls the caller of the operation made itself
DirectRoomCalls ==
    IF call.fn \in {"notify_room"} \cup DOMAIN HelperColor THEN 1 ELSE 0

\* C6: every record emitted through a handler makes exactly one notify_room
\* call, to the handler's room, with the record's message, the handler's
\* label, notify flag and format, and the colour of the handler's table for
\* the record's level name, yellow when the table has no such level: the
\* notify_room calls of an operation, those of its caller aside, are one
\* for one the records emitted in it, and emit(record) starts with record.
C6_EmitCallsNotifyRoom ==
    call # NoCall =>
        /\ Len(room_calls) = DirectRoomCalls + Len(emitted)
        /\ \A k \in DOMAIN emitted :
              room_calls[DirectRoomCalls + k] = ClaimedRoomCall(emitted[k])
        /\ call.fn = "emit" =>
              (emitted # <<>> /\ emitted[1] = call.args)

\* an ERROR record under the table {'DEBUG': 'red'} was sent in yellow
C6_Witness ==
    /\ call.fn = "emit"
    /\ call.args.self.colors = [DEBUG |-> "red"]
    /\ call.args.record.levelname = "ERROR"
    /\ Len(emitted) = 1
    /\ Len(room_calls) = 1
    /\ room_calls[1].color = "yellow"
    /\ posts # <<>>
    /\ posts[1].json["color"] = JSON("string", "yellow")

\* the first n characters of s, all of s when it is shorter
FirstChars(s, n) == IF Len(s) <= n THEN s ELSE SubSeq(s, 1, n)

\* C7: in every request that is posted, message is the first 10000
\* characters of the caller's message and from is the first 64 characters
\* of the label, '' when there is no label; and the call returns the
\* response when the transport answers with a success.
C7_Truncation ==
    posts # <<>> =>
        /\ posts[1].json["message"] =
              JSON("string", FirstChars(Val(Sent.message), 10000))
        /\ posts[1].json["from"] =
              JSON("string", IF Sent.label = None THEN ""
                             ELSE FirstChars(Val(Sent.label), 64))
        /\ (Val(reply).kind = "return" /\ Val(reply).value.status_code < 400)
              => (call.fn # "emit" => outcome = Return(Some(Val(reply).value)))
                 /\ (call.fn = "emit" => outcome = Return(None))

\* a message of 10001 characters with a label of 65 was posted as 10000 and
\* 64 characters, and the call returned the response
C7_Witness ==
    /\ posts # <<>>
    /\ call.fn = "notify_room"
    /\ Len(Val(Sent.message)) = 10001
    /\ Sent.label # None /\ Len(Val(Sent.label)) = 65
    /\ Len(posts[1].json["message"].value) = 10000
    /\ Len(posts[1].json["from"].value) = 64
    /\ outcome.kind = "return" /\ outcome.value = Some(OkResponse)

\* C8 as stated: with HIPCHAT_API_SERVER set to a host H the module is
\* imported with H as its host, without it with api.hipchat.com, and the
\* URL and the Host header of every request use that host; the host is
\* never left undefined.
C8_HostOverride ==
    imported # "no" =>
        LET override == Get(environ, "HIPCHAT_API_SERVER")
            host == IF Truthy(override) THEN Val(override) ELSE "api.hipchat.com"
        IN /\ imported = "ok"
           /\ API_SERVER_HOST = Some(host)
           /\ posts # <<>> =>
                 /\ posts[1].headers["Host"] = host
                 /\ SubSeq(posts[1].url, 1, Len(host) + 12) = "https://" \o host \o "/v2/"

\* the token of a posted request: what follows 'Bearer ' in Authorization
Bearer(post) == SubSeq(post.headers["Authorization"], 8,
                       Len(post.headers["Authorization"]))

Char(s, i) == SubSeq(s, i, i)

\* src[a..b] is an entry of the comma-separated list src: it lies between
\* two commas or ends of src and holds no comma (b = a - 1: an empty entry)
IsEntry(src, a, b) ==
    /\ a \in 1 .. Len(src) + 1
    /\ b \in a - 1 .. Len(src)
    /\ a = 1 \/ Char(src, a - 1) = ","
    /\ b = Len(src) \/ Char(src, b + 1) = ","
    /\ \A i \in a .. b : Char(src, i) # ","

\* the white space of the claim: blanks, tabs (the vertical one too) and
\* line ends
Blank == {" ", "\t", "", "\n", "\r", "\f"}

\* t is e without the white space around it
IsTrimmed(t, e) ==
    \E p \in 1 .. Len(e) + 1, q \in 0 .. Len(e) :
        /\ t = SubSeq(e, p, q)
        /\ \A i \in 1 .. p - 1 : Char(e, i) \in Blank
        /\ \A i \in q + 1 .. Len(e) : Char(e, i) \in Blank
        /\ t = "" \/ (/\ Char(t, 1) \notin Blank
                      /\ Char(t, Len(t)) \notin Blank)

Entries(src) ==
    {ab \in (1 .. Len(src) + 1) \X (0 .. Len(src)) : IsEntry(src, ab[1], ab[2])}

TokenSource == environ["HIPCHAT_API_TOKEN"]

\* C9: the bearer token of every request is an entry of the comma-separated
\* HIPCHAT_API_TOKEN with the white space around it removed, so with more
\* than one entry never the whole value; and for every entry of the list a
\* call is possible whose request carries that entry.
C9_TokenIsTrimmedEntry ==
    /\ posts # <<>> =>
          /\ SubSeq(posts[1].headers["Authorization"], 1, 7) = "Bearer "
          /\ \E ab \in Entries(TokenSource) :
                IsTrimmed(Bearer(posts[1]), SubSeq(TokenSource, ab[1], ab[2]))
          /\ Cardinality(Entries(TokenSource)) > 1 => Bearer(posts[1]) # TokenSource
    /\ (imported = "ok" /\ call = NoCall /\ CredentialConfigured) =>
          \A ab \in Entries(TokenSource) :
              ENABLED (/\ NotifyRoom(TokenInputs)
                       /\ posts' # <<>>
                       /\ IsTrimmed(Bearer(posts'[1]),
                                    SubSeq(TokenSource, ab[1], ab[2])))

\* with HIPCHAT_API_TOKEN = 'a, b' a request was sent with the token 'b'
C9_Witness ==
    /\ CredentialConfigured
    /\ TokenSource = "a, b"
    /\ posts # <<>>
    /\ Bearer(posts[1]) = "b"

\* C10 as stated: HipChatError is raised only for an HTTP failure with a
\* status of the bad-response set; any other failure of the POST, a network
\* failure or an HTTP error status outside the set, reaches the caller as
\* the transport's own error.
C10_OtherFailuresPropagate ==
    posts # <<>> =>
        /\ Raised(outcome, "HipChatError") =>
              (FailedResponse # None /\ IsBadStatus(Val(FailedResponse).status_code))
        /\ (Val(reply).kind = "raise" /\ Val(Val(reply).exc).type # "HTTPError")
              => outcome = Val(reply)
        /\ (/\ FailedResponse # None
            /\ Val(FailedResponse).status_code >= 400
            /\ ~IsBadStatus(Val(FailedResponse).status_code))
              => (/\ Raised(outcome, "HTTPError")
                  /\ Val(outcome.exc).response = FailedResponse)

\* the handler self constructed with the token t instead of its own
WithToken(self, t) == [self EXCEPT !.token = t]

\* C11: the token given to the handler's constructor does not influence what
\* is sent.  What a handler posted for a record, and how the call ended, is
\* also what a handler differing only in its token does for that record in
\* the same environment; the bearer token of the request is an entry of
\* HIPCHAT_API_TOKEN; and with HIPCHAT_API_TOKEN unset nothing is posted,
\* whatever token the handler holds.
C11_HandlerTokenUnused ==
    call.fn = "emit" =>
        /\ \A t \in {"tokA", "tokB"} :
              \E token \in _token(environ), sent \in Inputs.replies,
                 stack \in StackRooms :
                  LET r == emit(WithToken(call.args.self, t), call.args.record,
                                token, sent, handlers, stack)
                  IN r.posts = posts /\ r.outcome = outcome
        /\ posts # <<>> =>
              /\ CredentialConfigured
              /\ \E ab \in Entries(TokenSource) :
                    IsTrimmed(Bearer(posts[1]), SubSeq(TokenSource, ab[1], ab[2]))
              /\ Bearer(posts[1]) # call.args.self.token
        /\ ~CredentialConfigured => (posts = <<>> /\ reply = None)

\* a handler constructed with 'tokB' posted a record with the bearer token
\* of the environment
C11_Witness ==
    /\ call.fn = "emit"
    /\ call.args.self.token = "tokB"
    /\ CredentialConfigured
    /\ TokenSource = "token"
    /\ posts # <<>>
    /\ posts[1].headers["Authorization"] = "Bearer token"

\* a handler constructed with 'tokA' emitted a record with HIPCHAT_API_TOKEN
\* unset: nothing was posted
C11_WitnessNoCredential ==
    /\ call.fn = "emit"
    /\ call.args.self.token = "tokA"
    /\ ~CredentialConfigured
    /\ call.args.record.message = "foo"
    /\ posts = <<>>
    /\ outcome = Return(None)

====
